---- MODULE Spec2Model ----
(***************************************************************************)
(* Session store, credential verification and session-gated admin routes   *)
(* of the storefront (src/app.py) and its command-line user tool           *)
(* (src/admin.py).                                                         *)
(*                                                                         *)
(* Time is counted in hours.  An ObjectId is never handed out twice, and   *)
(* the code never compares ids of different collections, so each           *)
(* collection draws its ids from its own counter.  A session token is the  *)
(* ObjectId of the session; 0 stands for a request that carries no cookie. *)
(***************************************************************************)
EXTENDS Integers, Sequences, FiniteSets, TLC

\* inflight holds the requests that have read the store and not yet written to
\* it: a handler of another process may run between the two
VARIABLES users, sessions, docs, now, nextUserId, nextSessionId, nextDocId, resp,
          inflight

vars == <<users, sessions, docs, now, nextUserId, nextSessionId, nextDocId, resp,
          inflight>>

\* ------------------------------------------------------------------ bounds
MaxUserIds == 2
MaxSessionIds == 2
MaxDocIds == 2
MaxTime == 48

\* ------------------------------------------------------- program constants
SessionTTL == 24
MinPasswordLen == 6
MinUsernameLen == 3

NoToken == 0

\* --------------------------------------------------------- request inputs
Usernames == {"alice", "bob"}
Emails == {"a@x.io", "b@x.io"}
Passwords == {"secret1"}
SessionTypes == {"user", "admin"}

\* signup forms: username, email, password, confirm_password; the second asks
\* for an email the first one takes, the third fails the format checks
SignupForms ==
    {<<"alice", "a@x.io", "secret1", "secret1">>,
     <<"bob", "a@x.io", "secret1", "secret1">>,
     <<"al", "bad", "pw", "secret1">>}

\* what the command-line tool is asked to create: username, email, password
AdminForms ==
    {<<"bob", "b@x.io", "secret1">>,
     <<"bob", "a@x.io", "secret1">>}

\* login forms: a username or an email with the right or a wrong password, an
\* unknown name
LoginForms ==
    {<<"alice", "secret1">>, <<"alice", "secret2">>, <<"bob", "secret1">>,
     <<"a@x.io", "secret1">>, <<"ghost", "secret1">>}

\* what the admin login form may carry
AdminLoginForms ==
    {<<"alice", "secret1">>, <<"bob", "secret1">>, <<"bob", "secret2">>,
     <<"ghost", "secret1">>, <<"", "secret1">>}

\* a token that names no session: no ObjectId handed out ever equals it
ForgedToken == MaxUserIds + MaxSessionIds + MaxDocIds + 1

\* tokens a client can present: none, a forged one, or one of a stored session
Tokens == {NoToken, ForgedToken} \cup {s.session_id : s \in sessions}

\* ---------------------------------------------------------------- hashing
generate_password_hash(password) == "pbkdf2:" \o password

check_password_hash(pwhash, password) == pwhash = generate_password_hash(password)

\* ------------------------------------------------------------ Session model
\* mutant: a session counts as expired from the instant of its expiry on
Session_is_expired_at_expiry(s, t) == t >= s.expires_at

Session_is_expired(s, t) == t > s.expires_at

\* mutant: is_authenticated left at the field's default
NewSession_default_flag(sid, user_id, session_type, user_data, t) ==
    [session_id |-> sid,
     user_id |-> user_id,
     session_type |-> session_type,
     is_authenticated |-> FALSE,
     user_data |-> user_data,
     created_at |-> t,
     expires_at |-> t + SessionTTL]

NewSession(sid, user_id, session_type, user_data, t) ==
    [session_id |-> sid,
     user_id |-> user_id,
     session_type |-> session_type,
     is_authenticated |-> TRUE,
     user_data |-> user_data,
     created_at |-> t,
     expires_at |-> t + SessionTTL]

\* Session.objects(session_id=...)
SessionsById(S, sid) == {s \in S : s.session_id = sid}

\* ---------------------------------------------------------- SessionManager
\* mutant: a new session replaces the sessions its owner already has
SessionManager_create_session_single(S, sid, user_id, session_type, user_data, t) ==
    {s \in S : s.user_id # user_id} \cup {NewSession(sid, user_id, session_type, user_data, t)}

SessionManager_create_session(S, sid, user_id, session_type, user_data, t) ==
    S \cup {NewSession(sid, user_id, session_type, user_data, t)}

\* mutant: verify_session without the comparison of the class
verify_session_result_ignores_class(S, sid, session_type, t) ==
    IF sid = NoToken THEN FALSE
    ELSE IF SessionsById(S, sid) = {} THEN FALSE
    ELSE LET s == CHOOSE x \in SessionsById(S, sid) : TRUE IN
         IF Session_is_expired(s, t) THEN FALSE
         ELSE s.is_authenticated

\* the value verify_session returns; session_type "" is "no expected class"
verify_session_result(S, sid, session_type, t) ==
    IF sid = NoToken THEN FALSE
    ELSE IF SessionsById(S, sid) = {} THEN FALSE
    ELSE LET s == CHOOSE x \in SessionsById(S, sid) : TRUE IN
         IF Session_is_expired(s, t) THEN FALSE
         ELSE IF session_type # "" /\ s.session_type # session_type THEN FALSE
         ELSE s.is_authenticated

\* mutant: a verification of a live session renews its expiry
verify_session_store_sliding(S, sid, t) ==
    IF sid = NoToken THEN S
    ELSE IF SessionsById(S, sid) = {} THEN S
    ELSE LET s == CHOOSE x \in SessionsById(S, sid) : TRUE IN
         IF Session_is_expired(s, t) THEN S \ {s}
         ELSE (S \ {s}) \cup {[s EXCEPT !.expires_at = t + SessionTTL]}

\* mutant: verify_session without the delete of the expired record
verify_session_store_keeps(S, sid, t) == S

\* the session collection verify_session leaves behind
verify_session_store(S, sid, t) ==
    IF sid = NoToken THEN S
    ELSE IF SessionsById(S, sid) = {} THEN S
    ELSE LET s == CHOOSE x \in SessionsById(S, sid) : TRUE IN
         IF Session_is_expired(s, t) THEN S \ {s} ELSE S

\* get_session_data: <<>> is None, <<d>> the dict it returns
get_session_data(S, sid, t) ==
    IF SessionsById(S, sid) = {} THEN <<>>
    ELSE LET s == CHOOSE x \in SessionsById(S, sid) : TRUE IN
         IF ~Session_is_expired(s, t)
         THEN <<[user_id |-> s.user_id,
                 session_type |-> s.session_type,
                 user_data |-> s.user_data]>>
         ELSE <<>>

\* mutant: get_session_data deletes the expired record it finds
get_session_data_store_reaps(S, sid, t) ==
    {s \in S : ~(s.session_id = sid /\ Session_is_expired(s, t))}

\* the session collection get_session_data leaves behind
get_session_data_store(S, sid, t) == S

\* mutant: delete_session deletes every session of the token's owner
delete_session_of_owner(S, sid) ==
    {s \in S : \A x \in SessionsById(S, sid) : s.user_id # x.user_id}

delete_session(S, sid) == S \ SessionsById(S, sid)

\* mutant: the sweep also takes the sessions that expire at this instant
cleanup_expired_sessions_inclusive(S, t) == {s \in S : ~(s.expires_at <= t)}

cleanup_expired_sessions(S, t) == {s \in S : ~(s.expires_at < t)}

\* ------------------------------------------------------------------- users
UsersByUsername(U, username) == {u \in U : u.username = username}
UsersByEmail(U, email) == {u \in U : u.email = email}
UsersById(U, id) == {u \in U : u.id = id}

\* mutant: the collection has no unique index
User_save_ok_no_index(U, u) == TRUE

\* the unique indexes on username and email
User_save_ok(U, u) ==
    \A v \in U : v.id # u.id => v.username # u.username /\ v.email # u.email

\* mutant: the pre_delete handler is not connected
User_pre_delete_disconnected(S, u) == S

\* User.pre_delete: Session.objects(user_id=document).delete()
User_pre_delete(S, u) == {s \in S : s.user_id # u.id}

\* ------------------------------------------------------------------- auth
\* mutant: the privilege check comes before the password check
AdminAuth_login_privilege_first(U, username, password) ==
    IF username = "" \/ password = "" THEN "Username and password are required"
    ELSE IF UsersByUsername(U, username) = {} THEN "User not found"
    ELSE LET existing_user == CHOOSE u \in UsersByUsername(U, username) : TRUE IN
         IF existing_user.user_type # "admin" THEN "Insufficient privileges"
         ELSE IF ~check_password_hash(existing_user.password_hash, password)
         THEN "Invalid password"
         ELSE "ok"

AdminAuth_login(U, username, password) ==
    IF username = "" \/ password = "" THEN "Username and password are required"
    ELSE IF UsersByUsername(U, username) = {} THEN "User not found"
    ELSE LET existing_user == CHOOSE u \in UsersByUsername(U, username) : TRUE IN
         IF ~check_password_hash(existing_user.password_hash, password)
         THEN "Invalid password"
         ELSE IF existing_user.user_type # "admin" THEN "Insufficient privileges"
         ELSE "ok"

AdminAuth_create_session(S, sid, user_id, t) ==
    SessionManager_create_session(S, sid, user_id, "admin", [user_type |-> "admin"], t)

\* the set holding the user verify_credentials returns; {} is None
UserAuth_verify_credentials(U, username, password) ==
    LET found == IF UsersByUsername(U, username) # {}
                 THEN UsersByUsername(U, username)
                 ELSE UsersByEmail(U, username) IN
    {u \in found : check_password_hash(u.password_hash, password) /\ u.is_active}

UserAuth_create_session(S, sid, user_id, t) ==
    SessionManager_create_session(S, sid, user_id, "user", [user_type |-> "user"], t)

\* ------------------------------------------------------------ dispatcher
\* the routes of app.py in registration order: method, path pattern, endpoint;
\* "{}" is a path parameter, which matches any one segment
Routes ==
    <<<<"GET", <<>>, "home">>,
      <<"GET", <<"admin">>, "admin_login_page">>,
      <<"POST", <<"admin">>, "admin_login">>,
      <<"GET", <<"admin", "dashboard">>, "admin_dashboard">>,
      <<"GET", <<"admin", "{}">>, "admin_model_list">>,
      <<"GET", <<"admin", "{}", "add">>, "admin_model_add">>,
      <<"POST", <<"admin", "{}", "add">>, "admin_model_create">>,
      <<"GET", <<"admin", "{}", "{}">>, "admin_model_edit">>,
      <<"POST", <<"admin", "{}", "{}">>, "admin_model_update">>,
      <<"POST", <<"admin", "{}", "{}", "delete">>, "admin_model_delete">>,
      <<"GET", <<"admin", "logout">>, "admin_logout">>,
      <<"GET", <<"signup">>, "signup_page">>,
      <<"POST", <<"signup">>, "signup_user">>,
      <<"GET", <<"login">>, "login_page">>,
      <<"POST", <<"login">>, "login_user">>,
      <<"GET", <<"logout">>, "logout_user">>,
      <<"GET", <<"admin", "logout">>, "admin_logout">>,
      <<"GET", <<"profile">>, "user_profile">>>>

RouteMatches(route, method, path) ==
    /\ route[1] = method
    /\ Len(route[2]) = Len(path)
    /\ \A i \in 1..Len(path) : route[2][i] = "{}" \/ route[2][i] = path[i]

\* the endpoint of the first registered route that matches; "" when none does
Dispatch(method, path) ==
    LET hits == {i \in 1..Len(Routes) : RouteMatches(Routes[i], method, path)} IN
    IF hits = {} THEN ""
    ELSE Routes[CHOOSE i \in hits : \A j \in hits : i <= j][3]

\* ------------------------------------------------------------------- state
\* the endpoints that call SessionManager.verify_session on the cookie they get
VerifyingOps ==
    {"admin_dashboard", "admin_model_list", "admin_model_add", "admin_model_create",
     "admin_model_edit", "admin_model_update", "admin_model_delete", "user_profile"}

\* the class under which a token's session is valid at time t; "" when under none
ValidClass(S, token, t) ==
    IF \E s \in SessionsById(S, token) : s.is_authenticated /\ t <= s.expires_at
    THEN (CHOOSE s \in SessionsById(S, token) : TRUE).session_type
    ELSE ""

\* What the last request was and how it ended, with what it did to the stores:
\* whether it carried a cookie, the class under which the presented token was
\* valid when the request came,
\* the token when it was verified while its session had expires_at < now, whether
\* its session is still stored afterwards, the session records added and
\* removed, the ids of the identities deleted, and whether any Product,
\* Category, User or Order was created, modified or deleted.
Observed(request, op, outcome, token) ==
    [request |-> request,
     op |-> op,
     outcome |-> outcome,
     cookie |-> (token # NoToken),
     valid |-> ValidClass(sessions, token, now),
     expired |-> IF op \in VerifyingOps
                    /\ \E s \in SessionsById(sessions, token) : s.expires_at < now
                 THEN token ELSE NoToken,
     present |-> (SessionsById(sessions', token) # {}),
     added |-> sessions' \ sessions,
     removed |-> sessions \ sessions',
     deleted |-> {u.id : u \in users} \ {u.id : u \in users'},
     changed |-> (users' # users \/ docs' # docs)]

NoResp ==
    [request |-> "", op |-> "", outcome |-> "", cookie |-> FALSE, valid |-> "",
     expired |-> NoToken,
     present |-> FALSE, added |-> {}, removed |-> {}, deleted |-> {},
     changed |-> FALSE]

Init ==
    /\ users = {}
    /\ sessions = {}
    /\ docs = [m \in {"products", "categories", "orders"} |-> {}]
    /\ now = 0
    /\ nextUserId = 1
    /\ nextSessionId = 1
    /\ nextDocId = 1
    /\ resp = NoResp
    /\ inflight = {}

\* a day passes
Tick ==
    /\ now + SessionTTL <= MaxTime
    /\ now' = now + SessionTTL
    /\ UNCHANGED <<users, sessions, docs, nextUserId, nextSessionId, nextDocId, inflight>>
    /\ resp' = Observed("", "", "", NoToken)

\* ------------------------------------------------- user-facing auth routes
\* the pattern of signup_user, on the addresses a form may carry
email_pattern_matches(email) == email \in Emails

NewUser(id, username, email, password, user_type, is_verified) ==
    [id |-> id,
     username |-> username,
     email |-> email,
     password_hash |-> generate_password_hash(password),
     user_type |-> user_type,
     is_active |-> TRUE,
     is_verified |-> is_verified,
     last_login |-> <<>>]

\* the first entry of signup_user's error list; "" when the list is empty
signup_errors(U, username, email, password, confirm_password) ==
    LET format == (IF password # confirm_password
                   THEN <<"Passwords do not match">> ELSE <<>>)
               \o (IF Len(password) < MinPasswordLen
                   THEN <<"Password must be at least 6 characters long">> ELSE <<>>)
               \o (IF Len(username) < MinUsernameLen
                   THEN <<"Username must be at least 3 characters long">> ELSE <<>>)
               \o (IF ~email_pattern_matches(email)
                   THEN <<"Please enter a valid email address">> ELSE <<>>)
        errors == IF format # <<>> THEN format
                  ELSE (IF UsersByUsername(U, username) # {}
                        THEN <<"Username already exists">> ELSE <<>>)
                    \o (IF UsersByEmail(U, email) # {}
                        THEN <<"Email already exists">> ELSE <<>>) IN
    IF errors = <<>> THEN "" ELSE errors[1]

signup_user(username, email, password, confirm_password) ==
    LET error == signup_errors(users, username, email, password, confirm_password) IN
    IF error # ""
    THEN /\ UNCHANGED <<users, sessions, docs, now, nextUserId, nextSessionId, nextDocId, inflight>>
         /\ resp' = Observed("POST /signup", "signup_user", error, NoToken)
    ELSE /\ nextUserId <= MaxUserIds
         /\ nextSessionId <= MaxSessionIds
         /\ users' = users \cup {NewUser(nextUserId, username, email, password, "user", FALSE)}
         /\ sessions' = UserAuth_create_session(sessions, nextSessionId, nextUserId, now)
         /\ nextUserId' = nextUserId + 1
         /\ nextSessionId' = nextSessionId + 1
         /\ UNCHANGED <<docs, now, nextDocId, inflight>>
         /\ resp' = Observed("POST /signup", "signup_user", "ok", NoToken)

\* the session collection login_user leaves behind
login_user_sessions(S, found, sid, t) ==
    IF found = {} THEN S
    ELSE UserAuth_create_session(S, sid, (CHOOSE u \in found : TRUE).id, t)

\* the user collection login_user leaves behind
login_user_users(U, found, t) ==
    IF found = {} THEN U
    ELSE LET user == CHOOSE u \in found : TRUE IN
         (U \ {user}) \cup {[user EXCEPT !.last_login = <<t>>]}

\* what login_user shows the caller
login_user_outcome(found) ==
    IF found = {} THEN "Invalid username or password" ELSE "ok"

login_user(username, password) ==
    LET found == UserAuth_verify_credentials(users, username, password) IN
    /\ found # {} => nextSessionId <= MaxSessionIds
    /\ users' = login_user_users(users, found, now)
    /\ sessions' = login_user_sessions(sessions, found, nextSessionId, now)
    /\ nextSessionId' = IF found = {} THEN nextSessionId ELSE nextSessionId + 1
    /\ UNCHANGED <<docs, now, nextUserId, nextDocId, inflight>>
    /\ resp' = Observed("POST /login", "login_user", login_user_outcome(found), NoToken)

\* mutant: the session is created before the privilege check
admin_login_sessions_unchecked(S, U, username, detail, sid, t) ==
    IF detail \in {"ok", "Insufficient privileges"}
    THEN AdminAuth_create_session(S, sid, (CHOOSE u \in UsersByUsername(U, username) : TRUE).id, t)
    ELSE S

\* the session collection admin_login leaves behind
admin_login_sessions(S, U, username, detail, sid, t) ==
    IF detail = "ok"
    THEN AdminAuth_create_session(S, sid, (CHOOSE u \in UsersByUsername(U, username) : TRUE).id, t)
    ELSE S

\* the user collection admin_login leaves behind
admin_login_users(U, username, detail, t) == U

admin_login(username, password) ==
    LET detail == AdminAuth_login(users, username, password) IN
    /\ detail = "ok" => nextSessionId <= MaxSessionIds
    /\ users' = admin_login_users(users, username, detail, now)
    /\ sessions' = admin_login_sessions(sessions, users, username, detail, nextSessionId, now)
    /\ nextSessionId' = IF detail = "ok" THEN nextSessionId + 1 ELSE nextSessionId
    /\ UNCHANGED <<docs, now, nextUserId, nextDocId, inflight>>
    /\ resp' = Observed("POST /admin", "admin_login", detail, NoToken)

\* GET /logout
logout_user(token) ==
    /\ sessions' = IF token # NoToken THEN delete_session(sessions, token) ELSE sessions
    /\ UNCHANGED <<users, docs, now, nextUserId, nextSessionId, nextDocId, inflight>>
    /\ resp' = Observed("GET /logout", "logout_user", "redirect /", token)

\* mutant: get_current_user verifies the token without an expected class
get_current_user_any_class(S, U, token, t) ==
    IF token # NoToken /\ verify_session_result(S, token, "", t)
    THEN LET session_data == get_session_data(verify_session_store(S, token, t), token, t) IN
         IF session_data # <<>> /\ session_data[1].user_id # 0
         THEN UsersById(U, session_data[1].user_id)
         ELSE {}
    ELSE {}

\* the set holding the user get_current_user returns; {} is None
get_current_user(S, U, token, t) ==
    IF token # NoToken /\ verify_session_result(S, token, "user", t)
    THEN LET session_data == get_session_data(verify_session_store(S, token, t), token, t) IN
         IF session_data # <<>> /\ session_data[1].user_id # 0
         THEN UsersById(U, session_data[1].user_id)
         ELSE {}
    ELSE {}

\* the session collection get_current_user leaves behind
get_current_user_store(S, token, t) ==
    IF token # NoToken /\ verify_session_result(S, token, "user", t)
    THEN get_session_data_store(verify_session_store(S, token, t), token, t)
    ELSE IF token # NoToken THEN verify_session_store(S, token, t)
    ELSE S

\* GET /profile
user_profile(token) ==
    LET current_user == get_current_user(sessions, users, token, now) IN
    /\ sessions' = get_current_user_store(sessions, token, now)
    /\ UNCHANGED <<users, docs, now, nextUserId, nextSessionId, nextDocId, inflight>>
    /\ resp' = Observed("GET /profile", "user_profile",
                        IF current_user = {} THEN "redirect /login" ELSE "ok", token)

startup_event ==
    /\ sessions' = cleanup_expired_sessions(sessions, now)
    /\ UNCHANGED <<users, docs, now, nextUserId, nextSessionId, nextDocId, inflight>>
    /\ resp' = Observed("startup", "startup_event", "", NoToken)

\* ------------------------------------------------- command-line tool
create_admin_user(admin_username, admin_email, admin_password) ==
    LET admin_user == NewUser(nextUserId, admin_username, admin_email, admin_password, "admin", TRUE) IN
    IF UsersByUsername(users, admin_username) # {}
    THEN /\ UNCHANGED <<users, sessions, docs, now, nextUserId, nextSessionId, nextDocId, inflight>>
         /\ resp' = Observed("cli", "create_admin_user", "already exists", NoToken)
    ELSE IF ~User_save_ok(users, admin_user)
    THEN /\ UNCHANGED <<users, sessions, docs, now, nextUserId, nextSessionId, nextDocId, inflight>>
         /\ resp' = Observed("cli", "create_admin_user", "Error creating admin user", NoToken)
    ELSE /\ nextUserId <= MaxUserIds
         /\ users' = users \cup {admin_user}
         /\ nextUserId' = nextUserId + 1
         /\ UNCHANGED <<sessions, docs, now, nextSessionId, nextDocId, inflight>>
         /\ resp' = Observed("cli", "create_admin_user", "ok", NoToken)

\* Document.delete() on a User: the connected pre_delete handler runs first
User_delete_sessions(S, u) == User_pre_delete(S, u)

delete_user(username) ==
    IF UsersByUsername(users, username) = {}
    THEN /\ UNCHANGED <<users, sessions, docs, now, nextUserId, nextSessionId, nextDocId, inflight>>
         /\ resp' = Observed("cli", "delete_user", "not found", NoToken)
    ELSE LET user == CHOOSE u \in UsersByUsername(users, username) : TRUE IN
         /\ sessions' = User_delete_sessions(sessions, user)
         /\ users' = users \ {user}
         /\ UNCHANGED <<docs, now, nextUserId, nextSessionId, nextDocId, inflight>>
         /\ resp' = Observed("cli", "delete_user", "ok", NoToken)

\* ------------------------------------------------------------ admin routes
ADMIN_MODELS == {"products", "categories", "users", "orders"}

\* mutant: the guard accepts a session of any class
admin_guard_any_class(S, session_id, t) == verify_session_result(S, session_id, "", t)

\* the guard at the top of every admin route
admin_guard(S, session_id, t) == verify_session_result(S, session_id, "admin", t)

\* a route that passes the guard and only reads: dashboard, list, add and edit form
admin_read(request, endpoint, token, outcome) ==
    /\ sessions' = verify_session_store(sessions, token, now)
    /\ UNCHANGED <<users, docs, now, nextUserId, nextSessionId, nextDocId, inflight>>
    /\ resp' = Observed(request, endpoint,
                        IF ~admin_guard(sessions, token, now)
                        THEN "redirect /admin" ELSE outcome, token)

admin_dashboard(token) == admin_read("GET /admin/dashboard", "admin_dashboard", token, "ok")

admin_model_list(token, model_name) ==
    admin_read("GET /admin/" \o model_name, "admin_model_list", token,
               IF model_name \notin ADMIN_MODELS THEN "Model not found" ELSE "ok")

\* the second definition of this endpoint (the first one only drops the cookie)
admin_logout(token) ==
    /\ sessions' = IF token # NoToken THEN delete_session(sessions, token) ELSE sessions
    /\ UNCHANGED <<users, docs, now, nextUserId, nextSessionId, nextDocId, inflight>>
    /\ resp' = Observed("GET /admin/logout", "admin_logout", "redirect /admin", token)

\* GET /admin/<segment> carrying the admin_session cookie
http_get_admin(token, segment) ==
    LET endpoint == Dispatch("GET", <<"admin", segment>>) IN
    CASE endpoint = "admin_dashboard" -> admin_dashboard(token)
      [] endpoint = "admin_model_list" -> admin_model_list(token, segment)
      [] endpoint = "admin_logout" -> admin_logout(token)

\* the entities of a model, and the one Model.objects.get(id=...) finds
Objects(U, D, model_name) == IF model_name = "users" THEN U ELSE D[model_name]

ObjectsById(U, D, model_name, obj_id) == {o \in Objects(U, D, model_name) : o.id = obj_id}

\* ids an admin may name in a path: those of stored entities, and one of none
ObjIds == {u.id : u \in users} \cup UNION {{d.id : d \in docs[m]} : m \in DOMAIN docs}
          \cup {ForgedToken}

admin_model_delete(token, model_name, obj_id) ==
    IF ~admin_guard(sessions, token, now)
    THEN /\ sessions' = verify_session_store(sessions, token, now)
         /\ UNCHANGED <<users, docs, now, nextUserId, nextSessionId, nextDocId, inflight>>
         /\ resp' = Observed("POST /admin/" \o model_name \o "/{obj_id}/delete", "admin_model_delete", "redirect /admin", token)
    ELSE IF model_name \notin ADMIN_MODELS
    THEN /\ UNCHANGED <<users, sessions, docs, now, nextUserId, nextSessionId, nextDocId, inflight>>
         /\ resp' = Observed("POST /admin/" \o model_name \o "/{obj_id}/delete", "admin_model_delete", "Model not found", token)
    ELSE IF ObjectsById(users, docs, model_name, obj_id) = {}
    THEN /\ UNCHANGED <<users, sessions, docs, now, nextUserId, nextSessionId, nextDocId, inflight>>
         /\ resp' = Observed("POST /admin/" \o model_name \o "/{obj_id}/delete", "admin_model_delete", "Object not found", token)
    ELSE LET obj == CHOOSE o \in ObjectsById(users, docs, model_name, obj_id) : TRUE IN
         /\ users' = IF model_name = "users" THEN users \ {obj} ELSE users
         /\ sessions' = IF model_name = "users"
                        THEN User_delete_sessions(sessions, obj) ELSE sessions
         /\ docs' = IF model_name = "users" THEN docs
                    ELSE [docs EXCEPT ![model_name] = @ \ {obj}]
         /\ UNCHANGED <<now, nextUserId, nextSessionId, nextDocId, inflight>>
         /\ resp' = Observed("POST /admin/" \o model_name \o "/{obj_id}/delete", "admin_model_delete", "ok", token)

\* ------------------------------------------------------- entity schemas
\* An entity is a function from the names of its set fields to their values; a
\* field that is None is absent from the domain. The fields listed are the
\* ones the forms below can name and the ones clean() writes.
Fields(model_name) ==
    CASE model_name = "users" ->
            {"username", "email", "password_hash", "user_type", "is_active",
             "is_verified", "last_login"}
      [] model_name = "categories" ->
            {"name", "slug", "parent_category", "is_active", "display_order",
             "updated_at"}
      [] model_name = "products" ->
            {"name", "slug", "description", "sku", "category", "brand", "tags",
             "price", "manage_stock", "allow_backorders", "has_variants",
             "is_active", "is_featured", "is_digital", "updated_at", "published_at"}
      [] model_name = "orders" ->
            {"order_number", "user", "email", "shipping_address"}
      [] OTHER -> {}

\* which branch of the binder's isinstance chain a field takes
FieldKind(model_name, field_name) ==
    IF field_name \notin Fields(model_name) THEN "none"
    ELSE IF field_name \in {"parent_category", "category", "user"} THEN "reference"
    ELSE IF field_name \in {"display_order", "price"} THEN "number"
    ELSE IF field_name \in {"is_active", "is_verified", "is_featured", "manage_stock",
                            "allow_backorders", "has_variants", "is_digital"}
    THEN "boolean"
    ELSE IF field_name \in {"updated_at", "published_at"} THEN "datetime"
    ELSE IF field_name = "tags" THEN "list"
    ELSE IF field_name = "shipping_address" THEN "embedded"
    ELSE "other"

Required(model_name) ==
    CASE model_name = "users" -> {"username", "email", "password_hash"}
      [] model_name = "categories" -> {"name", "slug"}
      [] model_name = "products" ->
            {"name", "slug", "description", "sku", "category", "brand", "price"}
      [] model_name = "orders" -> {"order_number", "email", "shipping_address"}

\* mutant: the booleans default to false, as a BooleanField without a default
\* bound from an unchecked checkbox would
Defaults_booleans_false(model_name) ==
    CASE model_name = "users" ->
            [user_type |-> "user", is_active |-> FALSE, is_verified |-> FALSE,
             last_login |-> <<>>]
      [] model_name = "categories" -> [is_active |-> FALSE, display_order |-> 0]
      [] model_name = "products" ->
            [tags |-> <<>>, manage_stock |-> FALSE, allow_backorders |-> FALSE,
             has_variants |-> FALSE, is_active |-> FALSE, is_featured |-> FALSE,
             is_digital |-> FALSE]
      [] model_name = "orders" -> <<>>

Defaults(model_name) ==
    CASE model_name = "users" ->
            [user_type |-> "user", is_active |-> TRUE, is_verified |-> FALSE,
             last_login |-> <<>>]
      [] model_name = "categories" -> [is_active |-> TRUE, display_order |-> 0]
      [] model_name = "products" ->
            [tags |-> <<>>, manage_stock |-> TRUE, allow_backorders |-> FALSE,
             has_variants |-> FALSE, is_active |-> TRUE, is_featured |-> FALSE,
             is_digital |-> FALSE]
      [] model_name = "orders" -> <<>>

\* the unique indexes of a collection, each a tuple of field names
UniqueIndexes(model_name) ==
    CASE model_name = "users" -> {<<"username">>, <<"email">>}
      [] model_name = "categories" -> {<<"slug">>, <<"name", "parent_category">>}
      [] model_name = "products" -> {<<"slug">>, <<"sku">>}
      [] model_name = "orders" -> {<<"order_number">>}

Put(fn, k, v) == [x \in DOMAIN fn \cup {k} |-> IF x = k THEN v ELSE fn[x]]

\* Model(**obj_data): the given values, the defaults of the rest, a fresh id
Document_init(model_name, obj_data, id) ==
    LET defaults == Defaults(model_name) IN
    [f \in DOMAIN obj_data \cup DOMAIN defaults \cup {"id"} |->
        IF f = "id" THEN id
        ELSE IF f \in DOMAIN obj_data THEN obj_data[f]
        ELSE defaults[f]]

\* name.lower().replace(' ', '-') on the names a form may carry
Slugify(name) ==
    CASE name = "Toys" -> "toys"
      [] name = "Ball" -> "ball"
      [] name = "Red Ball" -> "red-ball"
      [] OTHER -> name

\* the slug step of Category.clean and Product.clean: derived from the name
\* when empty
Document_clean_slug(model_name, obj) ==
    IF /\ model_name \in {"categories", "products"}
       /\ ("slug" \notin DOMAIN obj \/ obj["slug"] = "")
       /\ "name" \in DOMAIN obj /\ obj["name"] # ""
    THEN Put(obj, "slug", Slugify(obj["name"]))
    ELSE obj

\* the published_at step of Product.clean: stamped once, while the product is
\* active
Document_clean_published(model_name, obj, t) ==
    IF /\ model_name = "products"
       /\ "is_active" \in DOMAIN obj /\ obj["is_active"] = TRUE
       /\ "published_at" \notin DOMAIN obj
    THEN Put(obj, "published_at", t)
    ELSE obj

\* Category.clean and Product.clean at time t; the other documents have none
Document_clean(model_name, obj, t) ==
    IF model_name \in {"categories", "products"}
    THEN Put(Document_clean_published(model_name,
                                      Document_clean_slug(model_name, obj), t),
             "updated_at", t)
    ELSE obj

\* EmailField.validate on the addresses a form may carry
EmailField_validate(email) == email \in Emails

\* Document.validate: the message of the first failure, "" when there is none;
\* raw holds the fields that were assigned the form's text unconverted
Document_validate(model_name, obj, raw) ==
    IF ~(Required(model_name) \subseteq DOMAIN obj) THEN "Field is required"
    ELSE IF \E f \in raw : FieldKind(model_name, f) = "list"
    THEN "Only lists and tuples may be used in a list field"
    ELSE IF \E f \in raw : FieldKind(model_name, f) = "embedded"
    THEN "Invalid embedded document instance provided"
    ELSE IF "email" \in raw /\ ~EmailField_validate(obj["email"])
    THEN "Invalid email address"
    ELSE ""

SameOn(a, b, index) ==
    \A i \in 1..Len(index) :
        /\ (index[i] \in DOMAIN a) = (index[i] \in DOMAIN b)
        /\ index[i] \in DOMAIN a => a[index[i]] = b[index[i]]

\* the store accepts the write: no other entity agrees with obj on a unique index
Document_unique_ok(model_name, obj, others) ==
    \A o \in others : o["id"] # obj["id"] =>
        \A index \in UniqueIndexes(model_name) : ~SameOn(o, obj, index)

\* Document.save of a cleaned entity: the message of the failure, "" on success
Document_save(model_name, obj, raw, others) ==
    IF Document_validate(model_name, obj, raw) # ""
    THEN Document_validate(model_name, obj, raw)
    ELSE IF ~Document_unique_ok(model_name, obj, others)
    THEN "Tried to save duplicate unique keys"
    ELSE ""

\* ------------------------------------------------------------ admin binder
\* float(value) on the numerals a form may carry; {} when it raises ValueError
float(value) ==
    CASE value = "0" -> {0}
      [] value = "5" -> {5}
      [] value = "12" -> {12}
      [] OTHER -> {}

\* the id a form text denotes; ForgedToken, the id of no entity, for any other text
ObjectId(value) ==
    CASE value = "1" -> 1
      [] value = "2" -> 2
      [] value = "3" -> 3
      [] value = "4" -> 4
      [] OTHER -> ForgedToken

\* form_data[field_name]: the values a form carries under a name
FormValues(form_data, field_name) ==
    {form_data[i][2] : i \in {j \in DOMAIN form_data : form_data[j][1] = field_name}}

\* the isinstance chain of admin_model_create and admin_model_update applied to
\* one form field; acc carries the object so far, the fields assigned raw text,
\* and the message of the exception that ended the binding ("" while none did)
bind_value(model_name, acc, field_name, value, U, D) ==
    LET kind == FieldKind(model_name, field_name)
        target == IF field_name = "category" /\ model_name = "products" THEN "categories"
                  ELSE IF field_name = "user" /\ model_name = "orders" THEN "users"
                  ELSE "" IN
    IF kind = "reference"
    THEN IF value = "" \/ target = "" THEN acc
         ELSE IF ObjectsById(U, D, target, ObjectId(value)) = {}
         THEN [acc EXCEPT !.error = "matching query does not exist"]
         ELSE [acc EXCEPT !.obj = Put(@, field_name, ObjectId(value))]
    ELSE IF kind = "number"
    THEN IF value = "" THEN [acc EXCEPT !.obj = Put(@, field_name, 0)]
         ELSE IF float(value) = {}
         THEN [acc EXCEPT !.error = "could not convert string to float"]
         ELSE [acc EXCEPT !.obj = Put(@, field_name, CHOOSE n \in float(value) : TRUE)]
    ELSE IF kind = "boolean"
    THEN [acc EXCEPT !.obj = Put(@, field_name, value # "")]
    ELSE [acc EXCEPT !.obj = Put(@, field_name, value), !.raw = @ \cup {field_name}]

\* the loop of admin_model_create over the first i fields of the form
RECURSIVE admin_model_create_bind(_, _, _, _, _)
admin_model_create_bind(model_name, form_data, i, U, D) ==
    IF i = 0 THEN [obj |-> <<>>, raw |-> {}, error |-> ""]
    ELSE LET acc == admin_model_create_bind(model_name, form_data, i - 1, U, D) IN
         IF acc.error # "" \/ form_data[i][1] = "csrf_token" THEN acc
         ELSE bind_value(model_name, acc, form_data[i][1], form_data[i][2], U, D)

\* mutant: a boolean the form does not name is bound to false, as an unchecked
\* checkbox
RECURSIVE admin_model_update_bind_unchecked_false(_, _, _, _, _, _)
admin_model_update_bind_unchecked_false(model_name, obj, form_data, i, U, D) ==
    IF i = 0
    THEN [obj |-> [f \in DOMAIN obj |->
                      IF /\ FieldKind(model_name, f) = "boolean"
                         /\ \A j \in DOMAIN form_data : form_data[j][1] # f
                      THEN FALSE ELSE obj[f]],
          raw |-> {}, error |-> ""]
    ELSE LET acc == admin_model_update_bind_unchecked_false(model_name, obj, form_data,
                                                            i - 1, U, D) IN
         IF \/ acc.error # ""
            \/ form_data[i][1] = "csrf_token"
            \/ FieldKind(model_name, form_data[i][1]) = "none"
         THEN acc
         ELSE bind_value(model_name, acc, form_data[i][1], form_data[i][2], U, D)

\* the loop of admin_model_update over the first i fields of the form
RECURSIVE admin_model_update_bind(_, _, _, _, _, _)
admin_model_update_bind(model_name, obj, form_data, i, U, D) ==
    IF i = 0 THEN [obj |-> obj, raw |-> {}, error |-> ""]
    ELSE LET acc == admin_model_update_bind(model_name, obj, form_data, i - 1, U, D) IN
         IF \/ acc.error # ""
            \/ form_data[i][1] = "csrf_token"
            \/ FieldKind(model_name, form_data[i][1]) = "none"
         THEN acc
         ELSE bind_value(model_name, acc, form_data[i][1], form_data[i][2], U, D)

\* ------------------------------------------------ admin routes that write
admin_model_add(token, model_name) ==
    admin_read("GET /admin/" \o model_name \o "/add", "admin_model_add", token,
               IF model_name \notin ADMIN_MODELS THEN "Model not found" ELSE "ok")

admin_model_edit(token, model_name, obj_id) ==
    admin_read("GET /admin/" \o model_name \o "/{obj_id}", "admin_model_edit", token,
               IF model_name \notin ADMIN_MODELS THEN "Model not found"
               ELSE IF ObjectsById(users, docs, model_name, obj_id) = {}
               THEN "Object not found" ELSE "ok")

\* the message admin_model_create ends with ("" when the object was saved)
admin_model_create_error(model_name, bound, obj, U, D) ==
    IF bound.error # "" THEN bound.error
    ELSE IF DOMAIN bound.obj \ Fields(model_name) # {}
    THEN "The fields do not exist on the document"
    ELSE Document_save(model_name, obj, bound.raw, Objects(U, D, model_name))

admin_model_create(token, model_name, form_data) ==
    LET request == "POST /admin/" \o model_name \o "/add" IN
    IF ~admin_guard(sessions, token, now)
    THEN /\ sessions' = verify_session_store(sessions, token, now)
         /\ UNCHANGED <<users, docs, now, nextUserId, nextSessionId, nextDocId, inflight>>
         /\ resp' = Observed(request, "admin_model_create", "redirect /admin", token)
    ELSE IF model_name \notin ADMIN_MODELS
    THEN /\ UNCHANGED <<users, sessions, docs, now, nextUserId, nextSessionId, nextDocId, inflight>>
         /\ resp' = Observed(request, "admin_model_create", "Model not found", token)
    ELSE LET bound == admin_model_create_bind(model_name, form_data, Len(form_data), users, docs)
             id == IF model_name = "users" THEN nextUserId ELSE nextDocId
             obj == Document_clean(model_name, Document_init(model_name, bound.obj, id), now)
             error == admin_model_create_error(model_name, bound, obj, users, docs) IN
         IF error # ""
         THEN /\ UNCHANGED <<users, sessions, docs, now, nextUserId, nextSessionId, nextDocId, inflight>>
              /\ resp' = Observed(request, "admin_model_create", error, token)
         ELSE /\ IF model_name = "users" THEN nextUserId <= MaxUserIds
                                         ELSE nextDocId <= MaxDocIds
              /\ users' = IF model_name = "users" THEN users \cup {obj} ELSE users
              /\ docs' = IF model_name = "users" THEN docs
                         ELSE [docs EXCEPT ![model_name] = @ \cup {obj}]
              /\ nextUserId' = IF model_name = "users" THEN nextUserId + 1 ELSE nextUserId
              /\ nextDocId' = IF model_name = "users" THEN nextDocId ELSE nextDocId + 1
              /\ UNCHANGED <<sessions, now, nextSessionId, inflight>>
              /\ resp' = Observed(request, "admin_model_create", "ok", token)

admin_model_update(token, model_name, obj_id, form_data) ==
    LET request == "POST /admin/" \o model_name \o "/{obj_id}" IN
    IF ~admin_guard(sessions, token, now)
    THEN /\ sessions' = verify_session_store(sessions, token, now)
         /\ UNCHANGED <<users, docs, now, nextUserId, nextSessionId, nextDocId, inflight>>
         /\ resp' = Observed(request, "admin_model_update", "redirect /admin", token)
    ELSE IF model_name \notin ADMIN_MODELS
    THEN /\ UNCHANGED <<users, sessions, docs, now, nextUserId, nextSessionId, nextDocId, inflight>>
         /\ resp' = Observed(request, "admin_model_update", "Model not found", token)
    ELSE IF ObjectsById(users, docs, model_name, obj_id) = {}
    THEN \* the lookup raises inside the try; the except clause then names obj, unbound
         /\ UNCHANGED <<users, sessions, docs, now, nextUserId, nextSessionId, nextDocId, inflight>>
         /\ resp' = Observed(request, "admin_model_update", "Internal Server Error", token)
    ELSE LET stored == CHOOSE o \in ObjectsById(users, docs, model_name, obj_id) : TRUE
             bound == admin_model_update_bind(model_name, stored, form_data,
                                              Len(form_data), users, docs)
             obj == Document_clean(model_name, bound.obj, now)
             error == IF bound.error # "" THEN bound.error
                      ELSE Document_save(model_name, obj, bound.raw,
                                         Objects(users, docs, model_name)) IN
         IF error # ""
         THEN /\ UNCHANGED <<users, sessions, docs, now, nextUserId, nextSessionId, nextDocId, inflight>>
              /\ resp' = Observed(request, "admin_model_update", error, token)
         ELSE /\ users' = IF model_name = "users" THEN (users \ {stored}) \cup {obj}
                          ELSE users
              /\ docs' = IF model_name = "users" THEN docs
                         ELSE [docs EXCEPT ![model_name] = (@ \ {stored}) \cup {obj}]
              /\ UNCHANGED <<sessions, now, nextUserId, nextSessionId, nextDocId, inflight>>
              /\ resp' = Observed(request, "admin_model_update", "ok", token)

\* ------------------------------------------- requests of concurrent processes
\* The stores are shared by the web workers and the command-line tool, so another
\* process may write between a handler's queries and its save. The handlers
\* below are signup_user and login_user cut at that point.
MaxInflight == 2

\* a field the stored document lacks
Missing == "(missing)"

\* POST /signup up to the end of its existence queries
signup_user_check(username, email, password, confirm_password) ==
    LET error == signup_errors(users, username, email, password, confirm_password) IN
    /\ error = "" => Cardinality(inflight) < MaxInflight
    /\ inflight' = IF error # "" THEN inflight
                   ELSE inflight \cup {[op |-> "signup_user", username |-> username,
                                        email |-> email, password |-> password]}
    /\ UNCHANGED <<users, sessions, docs, now, nextUserId, nextSessionId, nextDocId>>
    /\ resp' = Observed("POST /signup", "signup_user", error, NoToken)

\* POST /signup from user.save() on: the store rejects a duplicate username or
\* email, and the except clause re-renders the form
signup_user_save(r) ==
    LET user == NewUser(nextUserId, r.username, r.email, r.password, "user", FALSE) IN
    /\ r \in inflight /\ r.op = "signup_user"
    /\ inflight' = inflight \ {r}
    /\ IF ~User_save_ok(users, user)
       THEN /\ UNCHANGED <<users, sessions, docs, now, nextUserId, nextSessionId, nextDocId>>
            /\ resp' = Observed("POST /signup", "signup_user", "Error creating account",
                                NoToken)
       ELSE /\ nextUserId <= MaxUserIds
            /\ nextSessionId <= MaxSessionIds
            /\ users' = users \cup {user}
            /\ sessions' = UserAuth_create_session(sessions, nextSessionId, nextUserId, now)
            /\ nextUserId' = nextUserId + 1
            /\ nextSessionId' = nextSessionId + 1
            /\ UNCHANGED <<docs, now, nextDocId>>
            /\ resp' = Observed("POST /signup", "signup_user", "ok", NoToken)

\* POST /login up to the return of UserAuth.verify_credentials: the request
\* holds the user document it read
login_user_verify(username, password) ==
    LET found == UserAuth_verify_credentials(users, username, password) IN
    /\ found # {} => Cardinality(inflight) < MaxInflight
    /\ inflight' = IF found = {} THEN inflight
                   ELSE inflight \cup {[op |-> "login_user",
                                        user |-> CHOOSE u \in found : TRUE]}
    /\ UNCHANGED <<users, sessions, docs, now, nextUserId, nextSessionId, nextDocId>>
    /\ resp' = Observed("POST /login", "login_user",
                        IF found = {} THEN "Invalid username or password" ELSE "", NoToken)

\* what a stored document with nothing but an id and a last_login loads as
User_remnant(id, t) ==
    [id |-> id, username |-> Missing, email |-> Missing, password_hash |-> Missing,
     user_type |-> "user", is_active |-> TRUE, is_verified |-> FALSE,
     last_login |-> <<t>>]

\* user.save() after user.last_login = utcnow(): an update of the one changed
\* field of the stored document with the user's id. When that document is gone
\* the update matches nothing; whether the driver then inserts what it was
\* given (upsert) is the library's choice.
User_save_last_login(U, user, t, upsert) ==
    IF UsersById(U, user.id) # {}
    THEN LET stored == CHOOSE u \in UsersById(U, user.id) : TRUE IN
         (U \ {stored}) \cup {[stored EXCEPT !.last_login = <<t>>]}
    ELSE IF upsert THEN U \cup {User_remnant(user.id, t)}
    ELSE U

\* POST /login from user.last_login on, with the user document read earlier
login_user_finish(r, upsert) ==
    /\ r \in inflight /\ r.op = "login_user"
    /\ inflight' = inflight \ {r}
    /\ IF UsersById(users, r.user.id) = {} /\ upsert
          /\ ~User_save_ok(users, User_remnant(r.user.id, now))
       THEN /\ UNCHANGED <<users, sessions, docs, now, nextUserId, nextSessionId, nextDocId>>
            /\ resp' = Observed("POST /login", "login_user", "Login error", NoToken)
       ELSE /\ nextSessionId <= MaxSessionIds
            /\ users' = User_save_last_login(users, r.user, now, upsert)
            /\ sessions' = UserAuth_create_session(sessions, nextSessionId, r.user.id, now)
            /\ nextSessionId' = nextSessionId + 1
            /\ UNCHANGED <<docs, now, nextUserId, nextDocId>>
            /\ resp' = Observed("POST /login", "login_user", "ok", NoToken)

\* --------------------------------------------------------- specifications
\* cookies a browser may present: none, or the token of a stored session
Cookies == {NoToken} \cup {s.session_id : s \in sessions}

Next ==
    \/ Tick
    \/ startup_event
    \/ \E f \in SignupForms : signup_user(f[1], f[2], f[3], f[4])
    \/ \E f \in LoginForms : login_user(f[1], f[2])
    \/ \E f \in AdminLoginForms : admin_login(f[1], f[2])
    \/ \E token \in Cookies : logout_user(token)
    \/ \E token \in Tokens : user_profile(token)
    \/ \E f \in AdminForms : create_admin_user(f[1], f[2], f[3])
    \/ \E username \in Usernames : delete_user(username)
    \/ \E token \in Cookies, segment \in {"dashboard", "users", "logout"} :
            http_get_admin(token, segment)
    \/ \E token \in Cookies, obj_id \in ObjIds : admin_model_delete(token, "users", obj_id)

Spec == Init /\ [][Next]_vars

\* The admin site in use: one administrator, created by the command-line tool,
\* has logged in through POST /admin and through POST /login, and works on the
\* collections.
InitAdmin ==
    /\ users = {NewUser(1, "bob", "b@x.io", "secret1", "admin", TRUE)}
    /\ sessions = UserAuth_create_session(AdminAuth_create_session({}, 1, 1, 0), 2, 1, 0)
    /\ docs = [m \in {"products", "categories", "orders"} |-> {}]
    /\ now = 0
    /\ nextUserId = 2
    /\ nextSessionId = 3
    /\ nextDocId = 1
    /\ resp = NoResp
    /\ inflight = {}

\* what the add forms of the admin site may carry, by model
CreateRequests ==
    {<<"users", <<<<"username", "alice">>, <<"email", "a@x.io">>,
                  <<"password_hash", "pbkdf2:secret1">>>>>>,
     <<"users", <<<<"username", "alice">>, <<"email", "a@x.io">>,
                  <<"password", "secret1">>>>>>,
     <<"categories", <<<<"csrf_token", "x">>, <<"name", "Toys">>, <<"parent_category", "">>>>>>,
     <<"categories", <<<<"name", "Toys">>, <<"is_active", "TRUE">>>>>>,
     <<"products", <<<<"name", "Red Ball">>, <<"description", "a ball">>, <<"sku", "B1">>,
                     <<"category", "1">>, <<"brand", "Acme">>, <<"price", "5">>>>>>,
     <<"orders", <<<<"order_number", "O1">>, <<"email", "a@x.io">>, <<"user", "1">>>>>>,
     <<"widgets", <<>>>>}

\* what the edit forms of the admin site may carry, by model
UpdateRequests ==
    {<<"users", <<<<"is_active", "">>, <<"password", "secret2">>>>>>,
     <<"categories", <<<<"display_order", "12">>, <<"is_active", "false">>>>>>,
     <<"products", <<<<"price", "abc">>>>>>}

\* ids an admin may name in the path of a model's entity
PathIds(model_name) ==
    {o["id"] : o \in Objects(users, docs, model_name)} \cup {ForgedToken}

NextAdmin ==
    \/ Tick
    \/ \E token \in Tokens : admin_dashboard(token)
    \/ \E token \in Cookies : admin_model_list(token, "products")
    \/ \E token \in Cookies : admin_model_add(token, "products")
    \/ \E token \in Cookies, r \in CreateRequests : admin_model_create(token, r[1], r[2])
    \/ \E token \in Cookies, obj_id \in PathIds("users") :
            admin_model_edit(token, "users", obj_id)
    \/ \E token \in Cookies, r \in UpdateRequests : \E obj_id \in PathIds(r[1]) :
            admin_model_update(token, r[1], obj_id, r[2])
    \/ \E token \in Cookies, model_name \in {"users", "categories"} :
          \E obj_id \in PathIds(model_name) :
            admin_model_delete(token, model_name, obj_id)

SpecAdmin == InitAdmin /\ [][NextAdmin]_vars

\* The session store in use: one administrator, created by the command-line
\* tool, logs in and out through both login forms while time passes.
InitSessions ==
    /\ users = {NewUser(1, "bob", "b@x.io", "secret1", "admin", TRUE)}
    /\ sessions = {}
    /\ docs = [m \in {"products", "categories", "orders"} |-> {}]
    /\ now = 0
    /\ nextUserId = 2
    /\ nextSessionId = 1
    /\ nextDocId = 1
    /\ resp = NoResp
    /\ inflight = {}

NextSessions ==
    \/ Tick
    \/ startup_event
    \/ \E f \in {<<"bob", "secret1">>, <<"bob", "secret2">>} : login_user(f[1], f[2])
    \/ \E f \in {<<"bob", "secret1">>, <<"bob", "secret2">>} : admin_login(f[1], f[2])
    \/ \E token \in Tokens : logout_user(token)
    \/ \E token \in Tokens : user_profile(token)
    \/ \E token \in Tokens : admin_model_list(token, "users")

SpecSessions == InitSessions /\ [][NextSessions]_vars

\* Identities under administration: the administrator made by the command-line
\* tool has logged in through POST /admin, a customer has signed up, and the
\* administrator edits the identities while both sessions are in use.
InitUsers ==
    /\ users = {NewUser(1, "bob", "b@x.io", "secret1", "admin", TRUE),
                NewUser(2, "alice", "a@x.io", "secret1", "user", FALSE)}
    /\ sessions = UserAuth_create_session(AdminAuth_create_session({}, 1, 1, 0), 2, 2, 0)
    /\ docs = [m \in {"products", "categories", "orders"} |-> {}]
    /\ now = 0
    /\ nextUserId = 3
    /\ nextSessionId = 3
    /\ nextDocId = 1
    /\ resp = NoResp
    /\ inflight = {}

\* what the edit form of an identity may carry
UserUpdateForms ==
    {<<<<"user_type", "admin">>>>,
     <<<<"user_type", "user">>>>,
     <<<<"is_active", "">>>>,
     <<<<"password", "secret2">>>>}

NextUsers ==
    \/ Tick
    \/ login_user("alice", "secret1")
    \/ admin_login("alice", "secret1")
    \/ \E token \in Cookies : user_profile(token)
    \/ \E token \in Cookies : admin_dashboard(token)
    \/ \E token \in Cookies, form_data \in UserUpdateForms : \E obj_id \in PathIds("users") :
            admin_model_update(token, "users", obj_id, form_data)

SpecUsers == InitUsers /\ [][NextUsers]_vars

\* The binder at work on the catalogue: the logged-in administrator of InitAdmin
\* adds and edits categories and products whose forms carry references and tags.
BinderCreateRequests ==
    {<<"categories", <<<<"name", "Toys">>>>>>,
     <<"categories", <<<<"name", "Dolls">>, <<"parent_category", "1">>>>>>,
     <<"products", <<<<"name", "Red Ball">>, <<"description", "a ball">>, <<"sku", "B1">>,
                     <<"category", "1">>, <<"brand", "Acme">>, <<"price", "5">>>>>>,
     <<"products", <<<<"name", "Ball">>, <<"description", "a ball">>, <<"sku", "B2">>,
                     <<"category", "1">>, <<"brand", "Acme">>, <<"price", "5">>,
                     <<"tags", "a, b ,,c">>>>>>,
     <<"orders", <<<<"order_number", "O1">>, <<"email", "a@x.io">>, <<"user", "1">>>>>>}

BinderUpdateRequests ==
    {<<"products", <<<<"tags", "a, b ,,c">>>>>>,
     <<"products", <<<<"category", "1">>, <<"price", "12">>>>>>,
     <<"categories", <<<<"parent_category", "1">>, <<"display_order", "5">>>>>>}

NextBinder ==
    \/ Tick
    \/ \E token \in Cookies, r \in BinderCreateRequests : admin_model_create(token, r[1], r[2])
    \/ \E token \in Cookies, r \in BinderUpdateRequests : \E obj_id \in PathIds(r[1]) :
            admin_model_update(token, r[1], obj_id, r[2])
    \/ \E token \in Cookies : \E obj_id \in PathIds("categories") :
            admin_model_delete(token, "categories", obj_id)

SpecBinder == InitAdmin /\ [][NextBinder]_vars


\* References in the forms: the administrator of InitAdmin submits forms whose
\* reference fields are empty, name a stored entity, or name no entity.
RefCreateRequests ==
    {<<"categories", <<<<"name", "Toys">>, <<"parent_category", "">>>>>>,
     <<"categories", <<<<"name", "Dolls">>, <<"parent_category", "9">>>>>>,
     <<"products", <<<<"name", "Red Ball">>, <<"description", "a ball">>, <<"sku", "B1">>,
                     <<"category", "1">>, <<"brand", "Acme">>, <<"price", "5">>>>>>,
     <<"products", <<<<"name", "Ball">>, <<"description", "a ball">>, <<"sku", "B2">>,
                     <<"category", "9">>, <<"brand", "Acme">>, <<"price", "5">>>>>>}

RefUpdateRequests ==
    {<<"products", <<<<"brand", "Zenith">>, <<"category", "9">>>>>>,
     <<"products", <<<<"category", "">>, <<"price", "12">>>>>>,
     <<"categories", <<<<"parent_category", "9">>, <<"display_order", "5">>>>>>}

NextRefs ==
    \/ Tick
    \/ \E token \in Cookies, r \in RefCreateRequests : admin_model_create(token, r[1], r[2])
    \/ \E token \in Cookies, r \in RefUpdateRequests : \E obj_id \in PathIds(r[1]) :
            admin_model_update(token, r[1], obj_id, r[2])
    \/ \E token \in Cookies : \E obj_id \in PathIds("categories") :
            admin_model_delete(token, "categories", obj_id)

SpecRefs == InitAdmin /\ [][NextRefs]_vars


\* New entities: the administrator of InitAdmin adds an identity, a category and
\* products through forms that name no boolean or only some of them.
NewEntityRequests ==
    {<<"users", <<<<"username", "alice">>, <<"email", "a@x.io">>,
                  <<"password_hash", "pbkdf2:secret1">>>>>>,
     <<"categories", <<<<"name", "Toys">>>>>>,
     <<"products", <<<<"name", "Red Ball">>, <<"description", "a ball">>, <<"sku", "B1">>,
                     <<"category", "1">>, <<"brand", "Acme">>, <<"price", "5">>>>>>,
     <<"products", <<<<"name", "Ball">>, <<"description", "a ball">>, <<"sku", "B2">>,
                     <<"category", "1">>, <<"brand", "Acme">>, <<"price", "5">>,
                     <<"is_featured", "on">>, <<"manage_stock", "">>>>>>}

NextNewEntities ==
    \/ Tick
    \/ \E token \in Cookies, r \in NewEntityRequests : admin_model_create(token, r[1], r[2])
    \/ \E token \in Cookies, model_name \in {"users", "categories"} :
          \E obj_id \in PathIds(model_name) :
            admin_model_delete(token, model_name, obj_id)

SpecNewEntities == InitAdmin /\ [][NextNewEntities]_vars


\* Deactivated identities: the administrator made by the command-line tool has
\* logged in through POST /admin and has added a customer through the add form;
\* identities are then deactivated and reactivated while both log in.
InitInactive ==
    /\ users = {NewUser(1, "bob", "b@x.io", "secret1", "admin", TRUE),
                NewUser(2, "alice", "a@x.io", "secret1", "user", FALSE)}
    /\ sessions = AdminAuth_create_session({}, 1, 1, 0)
    /\ docs = [m \in {"products", "categories", "orders"} |-> {}]
    /\ now = 0
    /\ nextUserId = 3
    /\ nextSessionId = 2
    /\ nextDocId = 1
    /\ resp = NoResp
    /\ inflight = {}

\* what the edit form of an identity may carry for its active flag
ActiveFlagForms == {<<<<"is_active", "">>>>, <<<<"is_active", "on">>>>}

NextInactive ==
    \/ Tick
    \/ \E f \in {<<"alice", "secret1">>, <<"a@x.io", "secret1">>, <<"bob", "secret1">>} :
            login_user(f[1], f[2])
    \/ \E f \in {<<"alice", "secret1">>, <<"bob", "secret1">>} : admin_login(f[1], f[2])
    \/ \E token \in Cookies : logout_user(token)
    \/ \E token \in Cookies, form_data \in ActiveFlagForms : \E obj_id \in PathIds("users") :
            admin_model_update(token, "users", obj_id, form_data)

SpecInactive == InitInactive /\ [][NextInactive]_vars


\* Accounts made by several processes at once: visitors sign up while the
\* command-line tool creates administrators and a logged-in administrator adds
\* and renames identities through the admin forms.
UserCreateRequests ==
    {<<"users", <<<<"username", "alice">>, <<"email", "a@x.io">>,
                  <<"password_hash", "pbkdf2:secret1">>>>>>}

UserRenameForms ==
    {<<<<"username", "alice">>>>, <<<<"email", "a@x.io">>>>}

NextAccounts ==
    \/ \E f \in SignupForms : signup_user_check(f[1], f[2], f[3], f[4])
    \/ \E r \in inflight : signup_user_save(r)
    \/ \E f \in AdminForms : create_admin_user(f[1], f[2], f[3])
    \/ admin_login("bob", "secret1")
    \/ \E token \in Cookies, r \in UserCreateRequests : admin_model_create(token, r[1], r[2])
    \/ \E token \in Cookies, form_data \in UserRenameForms : \E obj_id \in PathIds("users") :
            admin_model_update(token, "users", obj_id, form_data)

SpecAccounts == Init /\ [][NextAccounts]_vars

\* Logins against deletions: a customer signs up and logs in while the
\* command-line tool deletes identities.
NextRace ==
    \/ Tick
    \/ signup_user("alice", "a@x.io", "secret1", "secret1")
    \/ \E f \in {<<"alice", "secret1">>, <<"a@x.io", "secret1">>, <<"alice", "secret2">>} :
            login_user_verify(f[1], f[2])
    \/ \E r \in inflight, upsert \in BOOLEAN : login_user_finish(r, upsert)
    \/ \E username \in Usernames : delete_user(username)
    \/ \E token \in Cookies : logout_user(token)

SpecRace == Init /\ [][NextRace]_vars


\* Edits of stored entities: the administrator of InitAdmin adds a category and
\* a product that is not yet active, and edits them on the same or a later day.
EditCreateRequests ==
    {<<"categories", <<<<"name", "Toys">>>>>>,
     <<"products", <<<<"name", "Red Ball">>, <<"description", "a ball">>, <<"sku", "B1">>,
                     <<"category", "1">>, <<"brand", "Acme">>, <<"price", "5">>,
                     <<"is_active", "">>>>>>}

EditRequests ==
    {<<"categories", <<<<"display_order", "5">>>>>>,
     <<"products", <<<<"is_active", "on">>>>>>,
     <<"products", <<<<"brand", "Zenith">>, <<"price", "12">>>>>>}

NextEdits ==
    \/ Tick
    \/ \E token \in Cookies, r \in EditCreateRequests : admin_model_create(token, r[1], r[2])
    \/ \E token \in Cookies, r \in EditRequests : \E obj_id \in PathIds(r[1]) :
            admin_model_update(token, r[1], obj_id, r[2])

SpecEdits == InitAdmin /\ [][NextEdits]_vars

\* ------------------------------------------------------------------ claims

\* a login or signup has just created a session
SessionCreated ==
    resp.op \in {"login_user", "admin_login", "signup_user"} /\ resp.outcome = "ok"

\* C1: right after create_session returned token t for class c, verify_session(t, c)
\* and verify_session(t) are true and verify_session(t, c') is false for the other class
C1_CreatedSessionVerifies ==
    SessionCreated =>
        /\ resp.added # {}
        /\ \A s \in resp.added :
              LET c == IF resp.op = "admin_login" THEN "admin" ELSE "user" IN
              /\ verify_session_result(sessions, s.session_id, c, now)
              /\ verify_session_result(sessions, s.session_id, "", now)
              /\ \A other \in SessionTypes \ {c} :
                    ~verify_session_result(sessions, s.session_id, other, now)

C1_Witness == SessionCreated /\ resp.op = "admin_login" /\ now > 0

\* C2: for every stored session, verify_session without a class is true iff
\* now <= expires_at and is_authenticated; it is false for an empty token and for
\* a token of no session; with a class it is also false when the class differs
C2_VerifyIffValid ==
    /\ \A s \in sessions :
          /\ verify_session_result(sessions, s.session_id, "", now)
                <=> (now <= s.expires_at /\ s.is_authenticated)
          /\ \A c \in SessionTypes :
                verify_session_result(sessions, s.session_id, c, now)
                   <=> (now <= s.expires_at /\ s.is_authenticated /\ s.session_type = c)
    /\ \A c \in SessionTypes \cup {""} :
          /\ ~verify_session_result(sessions, NoToken, c, now)
          /\ \A t \in (1..ForgedToken) \ {s.session_id : s \in sessions} :
                ~verify_session_result(sessions, t, c, now)

C2_Witness ==
    /\ \E s \in sessions : now = s.expires_at
    /\ resp.op = "user_profile" /\ resp.outcome = "ok"

\* C3: verify_session on a session whose expires_at is earlier than now returns
\* false (the request is redirected) and removes exactly that record, and
\* get_session_data of the token returns none afterwards
C3_ExpiredFailsAndIsRemoved ==
    resp.expired # NoToken =>
        /\ resp.outcome \in {"redirect /admin", "redirect /login"}
        /\ {s.session_id : s \in resp.removed} = {resp.expired}
        /\ Cardinality(resp.removed) = 1
        /\ resp.added = {}
        /\ get_session_data(sessions, resp.expired, now) = <<>>
        /\ \A c \in SessionTypes \cup {""} :
              ~verify_session_result(sessions, resp.expired, c, now)

C3_Witness == resp.expired # NoToken /\ sessions # {}

\* the admin routes behind the guard
AdminOps == VerifyingOps \ {"user_profile"}

\* C4: an admin operation (dashboard, list, add form, create, edit form, update,
\* delete) whose token did not verify as 'admin' answers with the redirect to the
\* admin login and creates, modifies or deletes no Product, Category, User or Order
C4_FailedGuardTouchesNothing ==
    resp.op \in AdminOps /\ resp.valid # "admin" =>
        /\ resp.outcome = "redirect /admin"
        /\ ~resp.changed
        /\ resp.deleted = {}
        /\ resp.added = {}

C4_Witness ==
    /\ resp.op = "admin_model_create" /\ resp.valid = "user"
    /\ resp.request = "POST /admin/categories/add"
    /\ docs["categories"] # {}

\* C5: after a logout request carrying token t (GET /logout, GET /admin/logout,
\* as dispatched), session t is no longer in the store
C5_LogoutRemovesSession ==
    resp.request \in {"GET /logout", "GET /admin/logout"} => ~resp.present

C5_Witness ==
    /\ resp.request = "GET /admin/logout" /\ resp.op = "admin_model_list"
    /\ resp.valid = "admin" /\ resp.present
    /\ resp.outcome = "Model not found"

\* C6: after an operation that deleted an identity (admin delete of a users entry,
\* the command-line delete_user) no session owned by it remains, and the sessions
\* of every other identity are as they were
C6_DeleteIdentityDeletesItsSessions ==
    resp.deleted # {} =>
        /\ \A s \in sessions : s.user_id \notin resp.deleted
        /\ \A s \in resp.removed : s.user_id \in resp.deleted
        /\ resp.added = {}

C6_Witness ==
    /\ resp.op = "admin_model_delete" /\ resp.deleted # {}
    /\ resp.removed # {} /\ sessions # {}

\* C7: a successful admin login creates a session of class 'admin'; while it is
\* unexpired an admin-guarded operation presenting it passes the guard, and
\* get_current_user, which requires class 'user', returns no identity for it
C7_AdminSessionClass ==
    /\ resp.op = "admin_login" /\ resp.outcome = "ok" =>
          resp.added # {} /\ \A s \in resp.added : s.session_type = "admin"
    /\ \A s \in sessions : s.session_type = "admin" /\ now <= s.expires_at =>
          /\ admin_guard(sessions, s.session_id, now)
          /\ get_current_user(sessions, users, s.session_id, now) = {}
    /\ resp.op \in AdminOps /\ resp.valid = "admin" => resp.outcome # "redirect /admin"
    /\ resp.op = "user_profile" /\ resp.valid = "admin" => resp.outcome = "redirect /login"

C7_Witness ==
    /\ resp.op = "user_profile" /\ resp.valid = "admin" /\ resp.present
    /\ \E u \in users : u.user_type = "admin"

\* C8: a failed login (unknown username, wrong password, a non-admin on the admin
\* login) leaves the session store as it was
C8_FailedLoginCreatesNoSession ==
    resp.op \in {"login_user", "admin_login"} /\ resp.outcome # "ok" =>
        resp.added = {} /\ resp.removed = {}

C8_Witness ==
    /\ resp.op = "admin_login" /\ resp.outcome = "Insufficient privileges"
    /\ sessions # {}

\* the forms either login may carry
AnyLoginForms == LoginForms \cup AdminLoginForms

\* the outcome of POST /login on the current identities
LoginOutcome(f) == login_user_outcome(UserAuth_verify_credentials(users, f[1], f[2]))

UnknownName(f) == UsersByUsername(users, f[1]) = {} /\ UsersByEmail(users, f[1]) = {}

WrongPassword(f) ==
    /\ UsersByUsername(users, f[1]) # {}
    /\ \A u \in UsersByUsername(users, f[1]) : ~check_password_hash(u.password_hash, f[2])

C10_LoginSetsLastLogin ==
    resp.op \in {"login_user", "admin_login"} /\ resp.outcome = "ok" =>
        /\ Cardinality(resp.added) = 1
        /\ \A s \in resp.added :
              /\ s.user_data.user_type = (IF resp.op = "admin_login" THEN "admin" ELSE "user")
              /\ \E u \in users : u.id = s.user_id /\ u.last_login = <<now>>

C10_Witness ==
    /\ resp.op = "admin_login" /\ resp.outcome = "ok"
    /\ \A s \in resp.added : \E u \in users : u.id = s.user_id /\ u.last_login = <<>>

\* the class a verifying endpoint expects of the session
RequiredClass(op) == IF op = "user_profile" THEN "user" ELSE "admin"

\* the operations that delete sessions: the verifying endpoints (an expired
\* record), the logouts, the sweep, and the deletions of an identity
RemovingOps ==
    VerifyingOps \cup {"logout_user", "admin_logout", "startup_event", "delete_user"}

\* C11: verify_session with an expected class on an unexpired session of another
\* class returns false and leaves the store as it was; the session is still
\* there and still verifies with its own class
C11_ClassMismatchKeepsSession ==
    /\ \A s \in sessions, c \in SessionTypes :
          now <= s.expires_at /\ s.session_type # c =>
              /\ ~verify_session_result(sessions, s.session_id, c, now)
              /\ verify_session_store(sessions, s.session_id, now) = sessions
              /\ verify_session_result(verify_session_store(sessions, s.session_id, now),
                                       s.session_id, s.session_type, now)
    /\ resp.op \in VerifyingOps /\ resp.valid \notin {"", RequiredClass(resp.op)} =>
          /\ resp.outcome \in {"redirect /admin", "redirect /login"}
          /\ resp.removed = {} /\ resp.added = {}
          /\ resp.present

C11_Witness ==
    /\ resp.op = "admin_model_list" /\ resp.valid = "user"
    /\ resp.outcome = "redirect /admin" /\ resp.present

\* C12: get_session_data returns none for a token of no session and for an
\* expired session, and leaves the store as it was; an expired record leaves
\* the store only through a verify_session call, a delete, the sweep or the
\* deletion of its owner
C12_GetSessionDataReadsOnly ==
    /\ \A token \in Tokens :
          /\ (\A s \in SessionsById(sessions, token) : now > s.expires_at) =>
                get_session_data(sessions, token, now) = <<>>
          /\ get_session_data_store(sessions, token, now) = sessions
    /\ resp.removed # {} => resp.op \in RemovingOps \cup {"admin_model_delete"}
    /\ resp.op = "user_profile" /\ resp.outcome = "ok" => resp.removed = {}

C12_Witness ==
    /\ \E s \in sessions : now > s.expires_at
    /\ resp.op = "user_profile" /\ resp.outcome = "ok"

\* C13: delete_session of a token that matches no session changes nothing,
\* deleting a token twice leaves what deleting it once leaves, and no session
\* with another token is affected
C13_DeleteSessionIdempotent ==
    /\ \A token \in Tokens :
          LET once == delete_session(sessions, token) IN
          /\ delete_session(once, token) = once
          /\ SessionsById(sessions, token) = {} => once = sessions
          /\ SessionsById(once, token) = {}
          /\ \A s \in sessions : s.session_id # token => s \in once
    /\ resp.op = "logout_user" =>
          /\ resp.outcome = "redirect /"
          /\ ~resp.present
          /\ resp.added = {}
          /\ Cardinality(resp.removed) <= 1
          /\ resp.valid = "" => \A s \in resp.removed : now > s.expires_at

C13_Witness ==
    /\ resp.op = "logout_user" /\ resp.cookie
    /\ resp.removed = {} /\ sessions # {}

\* C14: after cleanup_expired_sessions no session with expires_at < now remains
\* and every other session is still there; what it removes is what verify_session
\* treats as expired at that instant; only the startup event runs it
C14_SweepRemovesExactlyExpired ==
    /\ resp.op = "startup_event" =>
          /\ \A s \in sessions : s.expires_at >= now
          /\ \A s \in resp.removed : s.expires_at < now
          /\ resp.added = {}
    /\ \A s \in sessions :
          s \notin cleanup_expired_sessions(sessions, now) <=> Session_is_expired(s, now)
    /\ resp.op \notin {"startup_event", ""} /\ resp.deleted = {} =>
          Cardinality(resp.removed) <= 1

C14_Witness ==
    /\ resp.op = "startup_event" /\ resp.removed # {}
    /\ \E s \in sessions : s.expires_at = now

\* C15: two logins of one identity give two sessions with distinct tokens that
\* both verify; a login removes no session, and deleting or expiring one session
\* leaves the others stored and verifying
C15_LoginsAreIndependent ==
    /\ \A s1 \in sessions, s2 \in sessions : s1.session_id = s2.session_id => s1 = s2
    /\ resp.op \in {"login_user", "admin_login"} /\ resp.outcome = "ok" =>
          /\ Cardinality(resp.added) = 1
          /\ resp.removed = {}
    /\ \A s \in sessions : now <= s.expires_at =>
          verify_session_result(sessions, s.session_id, s.session_type, now)
    /\ resp.op \in VerifyingOps \cup {"logout_user"} =>
          Cardinality(resp.removed) <= 1 /\ resp.added = {}

C15_Witness ==
    /\ resp.op = "logout_user"
    /\ \E r \in resp.removed : \E s \in sessions :
          /\ s.user_id = r.user_id /\ s.session_type = r.session_type
          /\ verify_session_result(sessions, s.session_id, s.session_type, now)

\* C16: when an admin update turns an identity into an administrator while the
\* identity has an active session, that session is of class 'admin' after the
\* update and its payload records the administrator privilege
C16_PrivilegeFlipReachesSession ==
    [][\A u \in users, v \in users' :
          /\ resp'.op = "admin_model_update"
          /\ u.id = v.id /\ u.user_type # "admin" /\ v.user_type = "admin"
          => \A s \in sessions' :
                s.user_id = v.id /\ now <= s.expires_at =>
                    s.session_type = "admin" /\ s.user_data.user_type = "admin"]_vars

C16_Witness ==
    /\ resp.op = "admin_model_update" /\ resp.outcome = "ok"
    /\ \E u \in users, s \in sessions :
          /\ u.username = "alice" /\ u.user_type = "admin"
          /\ s.user_id = u.id /\ now <= s.expires_at
          /\ s.session_type = "user" /\ s.user_data.user_type = "user"

\* the entities of a model an admin create has just added
Created(model_name) == Objects(users', docs', model_name) \ Objects(users, docs, model_name)

\* the entity of a model with the given id after an admin update
Updated(model_name, obj_id) == ObjectsById(users', docs', model_name, obj_id)

\* C17: when the admin binder creates or updates a User from a form with a raw
\* 'password' field, the persisted password_hash is the hash of that value and
\* no attribute of the persisted record holds the raw value
C17_RawPasswordIsHashed ==
    [][\A token \in Cookies :
          /\ \A r \in CreateRequests : \A p \in FormValues(r[2], "password") :
                /\ r[1] = "users"
                /\ admin_guard(sessions, token, now)
                /\ admin_model_create(token, r[1], r[2])
                => \E u \in Created("users") :
                      /\ u.password_hash = generate_password_hash(p)
                      /\ p \notin {u.username, u.email, u.user_type}
          /\ \A r \in UpdateRequests : \A p \in FormValues(r[2], "password") :
                \A obj_id \in PathIds("users") \ {ForgedToken} :
                    /\ r[1] = "users"
                    /\ admin_guard(sessions, token, now)
                    /\ admin_model_update(token, r[1], obj_id, r[2])
                    => \A u \in Updated("users", obj_id) :
                          /\ u.password_hash = generate_password_hash(p)
                          /\ p \notin {u.username, u.email, u.user_type}]_vars

C17_Witness ==
    /\ resp.request = "POST /admin/users/{obj_id}" /\ resp.outcome = "ok"
    /\ \E u \in users : ~u.is_active /\ u.password_hash = generate_password_hash("secret1")

\* the fields of a model that the binder treats as booleans
BooleanFields(model_name) ==
    {f \in Fields(model_name) : FieldKind(model_name, f) = "boolean"}

\* C18: in admin create and admin update a boolean field is bound to true
\* exactly when its form value is 'true' in any case, and to false for every
\* other value, '' and 'false' included
C18_BooleanBinding ==
    [][\A token \in Cookies :
          /\ \A r \in CreateRequests : \A f \in BooleanFields(r[1]) :
                \A value \in FormValues(r[2], f) :
                    admin_model_create(token, r[1], r[2]) /\ resp'.outcome = "ok"
                    => \A o \in Created(r[1]) : o[f] = (value \in {"true", "True", "TRUE"})
          /\ \A r \in UpdateRequests : \A f \in BooleanFields(r[1]) :
                \A value \in FormValues(r[2], f) : \A obj_id \in PathIds(r[1]) :
                    admin_model_update(token, r[1], obj_id, r[2]) /\ resp'.outcome = "ok"
                    => \A o \in Updated(r[1], obj_id) :
                          o[f] = (value \in {"true", "True", "TRUE"})]_vars

C18_Witness ==
    /\ resp.request = "POST /admin/categories/{obj_id}" /\ resp.outcome = "ok"
    /\ \E c \in docs["categories"] : c["display_order"] = 12 /\ c["is_active"]

\* C19: in admin create and admin update a list-of-strings field such as
\* Product.tags is bound to the pieces of the form value between commas, trimmed,
\* without the empty ones, in order; '' gives the empty list
C19_ListBinding ==
    [][\A token \in Cookies :
          /\ \A r \in BinderCreateRequests : \A value \in FormValues(r[2], "tags") :
                /\ r[1] = "products"
                /\ admin_guard(sessions, token, now)
                /\ admin_model_create(token, r[1], r[2])
                => \E o \in Created("products") :
                      o["tags"] = (IF value = "a, b ,,c" THEN <<"a", "b", "c">> ELSE <<>>)
          /\ \A r \in BinderUpdateRequests : \A value \in FormValues(r[2], "tags") :
                \A obj_id \in PathIds("products") \ {ForgedToken} :
                    /\ r[1] = "products"
                    /\ admin_guard(sessions, token, now)
                    /\ admin_model_update(token, r[1], obj_id, r[2])
                    => \A o \in Updated("products", obj_id) :
                          o["tags"] = (IF value = "a, b ,,c" THEN <<"a", "b", "c">>
                                       ELSE <<>>)]_vars

C19_Witness ==
    /\ resp.request = "POST /admin/products/{obj_id}"
    /\ resp.outcome = "Only lists and tuples may be used in a list field"
    /\ \E o \in docs["products"] : o["tags"] = <<>>

\* C20: for the field 'category' of a Product, 'user' of an Order and
\* 'parent_category' of a Category, an admin create or update whose form carries
\* the id of an existing target entity binds the field to the entity with that id
C20_ReferenceBinding ==
    [][\A token \in Cookies :
          \A ref \in {<<"products", "category", "categories">>,
                      <<"orders", "user", "users">>,
                      <<"categories", "parent_category", "categories">>} :
          /\ \A r \in BinderCreateRequests : \A value \in FormValues(r[2], ref[2]) :
                /\ r[1] = ref[1] /\ value # ""
                /\ ObjectsById(users, docs, ref[3], ObjectId(value)) # {}
                /\ admin_model_create(token, r[1], r[2]) /\ resp'.outcome = "ok"
                => \A o \in Created(r[1]) :
                      ref[2] \in DOMAIN o /\ o[ref[2]] = ObjectId(value)
          /\ \A r \in BinderUpdateRequests : \A value \in FormValues(r[2], ref[2]) :
                \A obj_id \in PathIds(r[1]) :
                    /\ r[1] = ref[1] /\ value # ""
                    /\ ObjectsById(users, docs, ref[3], ObjectId(value)) # {}
                    /\ admin_model_update(token, r[1], obj_id, r[2]) /\ resp'.outcome = "ok"
                    => \A o \in Updated(r[1], obj_id) :
                          ref[2] \in DOMAIN o /\ o[ref[2]] = ObjectId(value)]_vars

C20_Witness ==
    /\ resp.request = "POST /admin/categories/add" /\ resp.outcome = "ok"
    /\ \E c \in docs["categories"] : c["name"] = "Dolls" /\ "parent_category" \notin DOMAIN c

\* the reference fields of the models: model, field, target collection
ReferenceFields ==
    {<<"products", "category", "categories">>,
     <<"orders", "user", "users">>,
     <<"categories", "parent_category", "categories">>}

\* C21: an admin create or update whose form carries, in a reference field, an
\* id that matches no entity of the target collection ends with a not-found
\* error and stores nothing: no new entity, and every stored entity as it was
C21_DanglingReferenceAborts ==
    [][\A token \in Cookies : \A ref \in ReferenceFields :
          /\ \A r \in RefCreateRequests : \A value \in FormValues(r[2], ref[2]) :
                /\ r[1] = ref[1] /\ value # ""
                /\ ObjectsById(users, docs, ref[3], ObjectId(value)) = {}
                /\ admin_guard(sessions, token, now)
                /\ admin_model_create(token, r[1], r[2])
                => /\ resp'.outcome = "matching query does not exist"
                   /\ users' = users /\ docs' = docs
          /\ \A r \in RefUpdateRequests : \A value \in FormValues(r[2], ref[2]) :
                \A obj_id \in PathIds(r[1]) \ {ForgedToken} :
                    /\ r[1] = ref[1] /\ value # ""
                    /\ ObjectsById(users, docs, ref[3], ObjectId(value)) = {}
                    /\ admin_guard(sessions, token, now)
                    /\ admin_model_update(token, r[1], obj_id, r[2])
                    => /\ resp'.outcome = "matching query does not exist"
                       /\ users' = users /\ docs' = docs]_vars

C21_Witness ==
    /\ resp.request = "POST /admin/categories/add" /\ resp.outcome = "ok"
    /\ \E c \in docs["categories"] : c["name"] = "Dolls"
    /\ \A c \in docs["categories"] : c["id"] # ObjectId("9")

\* C22: an admin update whose form carries an empty reference field leaves the
\* stored entity without that reference, and an admin create whose form carries
\* an empty reference field stores an entity without it
C22_EmptyReferenceClears ==
    [][\A token \in Cookies : \A ref \in ReferenceFields :
          /\ \A r \in RefCreateRequests :
                /\ r[1] = ref[1] /\ "" \in FormValues(r[2], ref[2])
                /\ admin_model_create(token, r[1], r[2]) /\ resp'.outcome = "ok"
                => \A o \in Created(r[1]) : ref[2] \notin DOMAIN o
          /\ \A r \in RefUpdateRequests : \A obj_id \in PathIds(r[1]) :
                /\ r[1] = ref[1] /\ "" \in FormValues(r[2], ref[2])
                /\ admin_model_update(token, r[1], obj_id, r[2]) /\ resp'.outcome = "ok"
                => \A o \in Updated(r[1], obj_id) : ref[2] \notin DOMAIN o]_vars

C22_Witness ==
    /\ resp.request = "POST /admin/products/{obj_id}" /\ resp.outcome = "ok"
    /\ \E o \in docs["products"] : o["price"] = 12 /\ o["category"] = 1

\* the messages with which admin_model_create and admin_model_update re-render
\* the form
FormErrors ==
    {"matching query does not exist", "could not convert string to float",
     "The fields do not exist on the document", "Field is required",
     "Only lists and tuples may be used in a list field",
     "Invalid embedded document instance provided", "Invalid email address",
     "Tried to save duplicate unique keys"}

\* C23: an admin create or update that passed the guard and failed (a coercion
\* error, a reference or target-object lookup failure, a write the store
\* rejects) ended with the form re-rendered with an error message, not with an
\* unhandled error, and left the stored entities unchanged
C23_FailuresRerenderForm ==
    /\ resp.op \in {"admin_model_create", "admin_model_update"}
    /\ resp.outcome \notin {"ok", "redirect /admin", "Model not found"}
    => resp.outcome \in FormErrors /\ ~resp.changed

C23_Witness ==
    /\ resp.request = "POST /admin/categories/{obj_id}"
    /\ resp.valid = "admin"
    /\ resp.outcome = "Internal Server Error"
    /\ ~resp.changed

\* the names a form carries
FormNames(form_data) == {form_data[i][1] : i \in DOMAIN form_data}

\* the fields clean() writes on a save of the entity that was before and is after
Maintained(model_name, before, after) ==
    IF model_name \notin {"categories", "products"} THEN {}
    ELSE {"updated_at"} \cup
         (IF /\ model_name = "products" /\ "published_at" \notin DOMAIN before
             /\ "is_active" \in DOMAIN after /\ after["is_active"] = TRUE
          THEN {"published_at"} ELSE {})

\* the two entities agree on the field: both lack it or both hold the same value
SameField(before, after, f) ==
    /\ (f \in DOMAIN before) = (f \in DOMAIN after)
    /\ f \in DOMAIN before => before[f] = after[f]

DocumentedDefaults(model_name) ==
    CASE model_name = "users" -> [is_active |-> TRUE]
      [] model_name = "products" ->
            [manage_stock |-> TRUE, allow_backorders |-> FALSE, has_variants |-> FALSE,
             is_active |-> TRUE, is_featured |-> FALSE, is_digital |-> FALSE]
      [] OTHER -> <<>>

\* C25: an entity stored by admin create holds, in every boolean the form did not
\* name, the documented default, and a new identity whose form names no
\* user_type is not an administrator
C25_CreateAppliesDefaults ==
    [][\A token \in Cookies : \A r \in NewEntityRequests :
          /\ r[1] \in {"users", "products"}
          /\ admin_model_create(token, r[1], r[2]) /\ resp'.outcome = "ok"
          => \A o \in Created(r[1]) :
                /\ \A b \in DOMAIN DocumentedDefaults(r[1]) \ FormNames(r[2]) :
                      b \in DOMAIN o /\ o[b] = DocumentedDefaults(r[1])[b]
                /\ r[1] = "users" /\ "user_type" \notin FormNames(r[2])
                   => o["user_type"] = "user"]_vars

C25_Witness ==
    /\ resp.op = "admin_model_create" /\ resp.outcome = "ok"
    /\ \E u \in users : u["username"] = "alice" /\ u["is_active"] = TRUE
    /\ \E o \in docs["products"] :
          /\ o["name"] = "Ball" /\ o["manage_stock"] = FALSE /\ o["is_featured"] = TRUE
          /\ o["is_active"] = TRUE /\ o["is_digital"] = FALSE

\* C27: a session is created authenticated and with expires_at 24 hours after
\* the time of its creation; no step changes a stored session (a step only adds
\* or removes sessions); and a token that passes verify_session is at most 24
\* hours old
C27_SessionsAreImmutable ==
    [][/\ \A s \in sessions' \ sessions :
             \/ \E old \in sessions : old.session_id = s.session_id
             \/ /\ s.is_authenticated
                /\ s.created_at = now
                /\ s.expires_at = now + SessionTTL
       /\ \A old \in sessions : \A s \in sessions' :
             s.session_id = old.session_id => s = old
       /\ \A s \in sessions' :
             verify_session_result(sessions', s.session_id, s.session_type, now')
             => now' <= s.created_at + SessionTTL]_vars

C27_Witness ==
    /\ now = SessionTTL
    /\ resp.op = "admin_model_list" /\ resp.valid = "user"
    /\ \E s \in sessions :
          /\ s.created_at = 0 /\ s.expires_at = SessionTTL
          /\ verify_session_result(sessions, s.session_id, s.session_type, now)
    /\ \E s \in sessions : s.created_at = SessionTTL /\ s.expires_at = 2 * SessionTTL

\* C29: every session whose token passes the admin guard is owned by an identity
\* whose user_type is 'admin' now
C29_AdminGuardFollowsUserType ==
    \A s \in sessions :
        admin_guard(sessions, s.session_id, now)
        => \E u \in users : u.id = s.user_id /\ u.user_type = "admin"

C29_Witness ==
    /\ resp.op = "admin_dashboard" /\ resp.outcome = "ok" /\ resp.valid = "admin"
    /\ \A u \in users : u.user_type = "user"
    /\ \E s \in sessions : admin_guard(sessions, s.session_id, now)

\* C30: a user login or an administrator login that has just created a session
\* created it for an identity whose is_active flag is true
C30_InactiveCannotLogIn ==
    /\ resp.op \in {"login_user", "admin_login"}
    /\ resp.outcome = "ok"
    => \A s \in resp.added : \E u \in users : u.id = s.user_id /\ u.is_active

C30_Witness ==
    /\ resp.op = "admin_login" /\ resp.outcome = "ok"
    /\ \E s \in resp.added : \E u \in users :
          u.id = s.user_id /\ ~u.is_active /\ u.user_type = "admin"

\* the outcomes of a signup that found, at its queries or at its save, that the
\* username or the email is taken
SignupTaken == {"Username already exists", "Email already exists", "Error creating account"}

\* C26: no two identities share a username and no two share an email, however
\* signups, admin creates and updates of users and create_admin_user interleave;
\* and a signup that found its username or email taken created neither an
\* identity nor a session
C26_UsernamesAndEmailsUnique ==
    /\ \A u \in users : \A v \in users :
          u.id # v.id => u.username # v.username /\ u.email # v.email
    /\ resp.op = "signup_user" /\ resp.outcome \in SignupTaken
       => resp.added = {} /\ ~resp.changed

C26_Witness ==
    /\ resp.op = "signup_user" /\ resp.outcome = "Error creating account"
    /\ Cardinality(users) = 2
    /\ \E u \in users : u.email = "a@x.io" /\ u.user_type = "admin"

\* C28: every session points to an identity that is stored: a login that
\* verified its credentials before the identity was deleted leaves no session
\* owned by the deleted identity
C28_SessionOwnerExists ==
    \A s \in sessions : \E u \in users : u.id = s.user_id /\ u.username # Missing

C28_Witness ==
    /\ resp.op = "login_user" /\ resp.outcome = "ok"
    /\ \E s \in resp.added : \A u \in users : u.id # s.user_id

====
